---- MODULE Spec2Model ----
(***************************************************************************)
(* FisherAI web client: the planner state hook (usePlanner), the planner   *)
(* page (PlannerPage), the form (PlannerForm), the results list            *)
(* (ResultsList), the shell (Layout) and the API client, as one state      *)
(* machine.                                                                *)
(*                                                                         *)
(* JavaScript values are encoded so that every comparison is well typed:   *)
(*   - a string-or-null / string-or-undefined value is a string, with the  *)
(*     sentinels NULL and UNDEF standing for null and undefined;           *)
(*   - an object-or-null value is a sequence of length 0 (null/undefined)  *)
(*     or 1 (the object).                                                  *)
(* Every user event is one action that includes the re-render and the      *)
(* React effects the event triggers; every network completion is one       *)
(* action that runs the continuation after the await.                      *)
(***************************************************************************)
EXTENDS Integers, Sequences, FiniteSets, TLC

VARIABLES
    \* usePlanner
    meta, loadingMeta, results, planning, error, presets,
    \* PlannerPage
    submitted, userId,
    \* browser localStorage
    ls_user_id, ls_last_saved,
    \* PlannerForm
    lastSaved, regionId, areaId, species, startDate, endDate,
    \* ResultsList: the rows currently rendered
    rows,
    \* network and collaborator service
    planReqs, presetReqs, store,
    \* history: the last step taken (when a property below is about it), the
    \* preset applied since the last edit, the responses that resolved
    \* successfully, in order, and the counters that bound a run
    last, applied, okOrder, nPlan, nPreset, edits, nReload, editBudget,
    \* ResultsList: the status text per row key, the feedback calls in
    \* flight and their count
    feedbackStatus, fbReqs, nFb,
    \* Layout: the indicator, the effect's cancelled flag, the probe call
    \* ("pending" or "done"), the probe calls made since the mount and the
    \* calls of setApiStatus since the mount
    apiStatus, cancelled, probe, nProbe, statusWrites

hookVars  == <<meta, loadingMeta, results, planning, error, presets>>
pageVars  == <<submitted, userId>>
lsVars    == <<ls_user_id, ls_last_saved>>
formVars  == <<lastSaved, regionId, areaId, species, startDate, endDate>>
netVars   == <<planReqs, presetReqs, store>>
histVars  == <<last, applied, okOrder, nPlan, nPreset, edits, nReload,
              editBudget>>
fbVars    == <<feedbackStatus, fbReqs, nFb>>
shellVars == <<apiStatus, cancelled, probe, nProbe, statusWrites>>
vars == <<hookVars, pageVars, lsVars, formVars, rows, netVars, histVars,
          fbVars, shellVars>>

(***************************************************************************)
(* Bounds of the model.                                                    *)
(***************************************************************************)
MaxPlanReqs == 2      \* run-plan invocations in a run
MaxPresetCalls == 2   \* preset load/save network calls in a run
MaxEdits == 1         \* form field edits in a run of Spec
MaxFormEdits == 3     \* form field edits in a run of SpecForm
MaxDateInput == 1     \* latest day picked in a date widget, from today
MaxListLen == 10      \* longest result list the service returns
MaxReloads == 1       \* page reloads in a run
MaxFeedback == 2      \* feedback submissions in a run
MaxFeedbackRow == 2   \* the rendered rows, from the top, that get rated

(***************************************************************************)
(* JavaScript values.                                                      *)
(***************************************************************************)
NULL == "<null>"
UNDEF == "<undefined>"

\* !x for a string-or-null-or-undefined value
Falsy(x) == x \in {NULL, UNDEF, ""}

\* a || b
Or(a, b) == IF Falsy(a) THEN b ELSE a

\* !x for an object-or-null value
Absent(o) == Len(o) = 0

Min(a, b) == IF a < b THEN a ELSE b

Range(s) == {s[i] : i \in 1..Len(s)}

\* Array.prototype.slice(from, to) with 0 <= from <= to
Slice(s, from, to) ==
    [i \in 1..(Min(to, Len(s)) - Min(from, Len(s))) |-> s[i + from]]

\* Array.prototype.filter(x => x !== v)
RECURSIVE Without(_, _)
Without(s, v) ==
    IF s = <<>> THEN <<>>
    ELSE IF s[1] = v THEN Without(Tail(s), v)
    ELSE <<s[1]>> \o Without(Tail(s), v)

(***************************************************************************)
(* Dates are day numbers; Today is new Date().toISOString().slice(0, 10).  *)
(***************************************************************************)
Today == 0
\* new Date().toISOString(): the instant of a click
Now == 1
FormEndOffset == 3
AutoRunEndOffset == 2
MaxRows == 8
\* the days picked in the date widgets
DateInputs == Today..(Today + MaxDateInput)

(***************************************************************************)
(* The collaborator's metadata: what GET /meta/regions can answer.         *)
(***************************************************************************)
Regions ==
    << [id |-> "r1", areas |-> <<"a1", "a2">>],
       [id |-> "r2", areas |-> <<>>] >>

MetaWithDefaults ==
    [regions |-> Regions, species |-> <<"kob", "snoek">>,
     defaults |-> << [region_id |-> "r1", area_id |-> "a2"] >>]

MetaNoDefaults ==
    [regions |-> Regions, species |-> <<"kob", "snoek">>, defaults |-> <<>>]

MetaPool == {MetaWithDefaults, MetaNoDefaults}

\* meta?.defaults
DefaultsOf(m) == IF Absent(m) THEN <<>> ELSE m[1].defaults

\* meta?.regions.find((r) => r.id === id)?.areas
AreasOf(m, id) ==
    IF Absent(m) THEN <<>>
    ELSE LET rs == m[1].regions
             hits == {i \in 1..Len(rs) : rs[i].id = id}
         IN IF hits = {} THEN <<>>
            ELSE rs[CHOOSE i \in hits : \A j \in hits : i <= j].areas

\* the region <option> values: the blank option and every region of meta
RegionOptions(m) ==
    {""} \cup (IF Absent(m) THEN {} ELSE {r.id : r \in Range(m[1].regions)})

\* the species chips
SpeciesOptions(m) == IF Absent(m) THEN {} ELSE Range(m[1].species)

(***************************************************************************)
(* Failures of a network call, as the axios error object the catch block   *)
(* sees: err.response.data.error and err.message.                          *)
(***************************************************************************)
ErrPool ==
    { [respError |-> "quota exceeded", message |-> "Request failed with status code 429"],
      [respError |-> "", message |-> ""] }

(***************************************************************************)
(* Result rows (PlanWindow) and the lists POST /plan can answer with.      *)
(***************************************************************************)
LabelVals == {UNDEF, NULL, "", "open-meteo"}

SourceRecords ==
    [wind : LabelVals, swell : LabelVals, sea_temp : LabelVals, tide : LabelVals]

\* row.sources: absent, or a record of labels
SourcesPool == {<<>>} \cup {<<s>> : s \in SourceRecords}

FullSources ==
    << [wind |-> "open-meteo", swell |-> "open-meteo",
        sea_temp |-> "open-meteo", tide |-> "open-meteo"] >>

\* A list of n rows whose window ids and scores are rotated by k, so that it
\* is sorted neither by id nor by score; the first row carries sources src.
MkList(n, k, src) ==
    [i \in 1..n |->
        [date |-> Today + (i % 2),
         window_id |-> ((i + k) % n) + 1,
         score |-> ((i + k) % n) * 10,
         sources |-> IF i = 1 THEN src ELSE FullSources]]

\* the lists the service answers with in Spec
PlanLists == {MkList(MaxRows + 1, 1, <<>>)}

\* the lists ResultsList is rendered with in SpecResults
RenderLists ==
    {MkList(n, k, src) : n \in 0..MaxListLen, k \in 0..1, src \in SourcesPool}

\* results?.results || []
ResultsProp(res) == IF Absent(res) THEN <<>> ELSE res[1].results

HasGapNoTide(row) ==
    \/ Absent(row.sources)
    \/ Falsy(row.sources[1].wind)
    \/ Falsy(row.sources[1].swell)
    \/ Falsy(row.sources[1].sea_temp)

\* const hasGap = !row.sources || !row.sources.wind || ...
HasGap(row) ==
    \/ Absent(row.sources)
    \/ Falsy(row.sources[1].wind)
    \/ Falsy(row.sources[1].swell)
    \/ Falsy(row.sources[1].sea_temp)
    \/ Falsy(row.sources[1].tide)

\* one result card: its React key and whether the data-gap chip is shown
RenderRow(row) ==
    [key |-> <<row.date, row.window_id>>, score |-> row.score,
     hasGap |-> HasGap(row)]

RenderRowsUncapped(list) ==
    [i \in 1..Len(list) |-> RenderRow(list[i])]

\* results.slice(0, 8).map((row) => ...); an empty list renders no row
RenderRows(list) ==
    IF Len(list) = 0 THEN <<>>
    ELSE LET top == Slice(list, 0, MaxRows)
         IN [i \in 1..Len(top) |-> RenderRow(top[i])]

(***************************************************************************)
(* ResultsList feedback.  A row's key is `${row.date}-${row.window_id}`;   *)
(* dates are ISO days of fixed length, so the key determines the pair and  *)
(* is modelled as the pair.                                                *)
(***************************************************************************)
Ratings == {"up", "down"}

FeedbackKey(row) == <<row.date, row.window_id>>

\* feedbackStatus[key] || ""
StatusText(fs, key) == IF key \in DOMAIN fs THEN fs[key] ELSE ""

SetStatusFromClosure(prev, seen, key, text) ==
    [k \in DOMAIN seen \cup {key} |-> IF k = key THEN text ELSE seen[k]]

\* setFeedbackStatus((prev) => ({ ...prev, [key]: text })): prev is the state
\* when the update is applied, seen the state the handler's closure captured
SetStatus(prev, seen, key, text) ==
    [k \in DOMAIN prev \cup {key} |-> IF k = key THEN text ELSE prev[k]]

\* sendFeedback(userId || null, payload): the X-User-Id header, if any
FeedbackHeader(u) == IF Falsy(Or(u, NULL)) THEN <<>> ELSE <<u>>

\* the payload handleFeedback builds from the row
FeedbackBody(row, rating) ==
    [rating |-> rating, date |-> row.date, window_id |-> row.window_id,
     score |-> row.score, sources |-> row.sources]

(***************************************************************************)
(* Presets and the collaborator's preset store (one list per caller id).   *)
(***************************************************************************)
Users == {"u1"}
UserIdInputs == {"", "u1"}

\* POST /user/presets: the service appends and answers the full list
ServerSave(st, u, p) == [st EXCEPT ![u] = Append(@, p)]

\* data.presets || []
ServerList(st, u) == st[u]

\* the saves among the requests in flight, applied in the order issued
RECURSIVE ApplySaves(_, _)
ApplySaves(st, reqs) ==
    IF reqs = {} THEN st
    ELSE LET q == CHOOSE x \in reqs : \A y \in reqs : x.id <= y.id
         IN ApplySaves(ServerSave(st, q.userId, q.preset), reqs \ {q})

(***************************************************************************)
(* PlannerForm: what the handlers compute.                                 *)
(***************************************************************************)
\* the form is rendered once loading is over: if (loading) return <p>...</p>
FormShown == ~loadingMeta

\* disabled={planning || !regionId || !areaId}
SubmitDisabled == planning \/ Falsy(regionId) \/ Falsy(areaId)

SubmitEnabled == FormShown /\ ~SubmitDisabled

\* useEffect: if (defaults && !regionId) { setRegionId(..); setAreaId(..) }
AfterDefaultsEffect(m, r, a) ==
    IF ~Absent(DefaultsOf(m)) /\ Falsy(r)
    THEN [region |-> DefaultsOf(m)[1].region_id, area |-> DefaultsOf(m)[1].area_id]
    ELSE [region |-> r, area |-> a]

RegionChangeKeepsArea(m, v, a) == a

\* region onChange: the area after setRegionId(v)
RegionChangeArea(m, v, a) ==
    IF Len(AreasOf(m, v)) > 0 THEN AreasOf(m, v)[1] ELSE a

\* prev.includes(sp) ? prev.filter((s) => s !== sp) : [...prev, sp]
SpeciesToggle(prev, sp) ==
    IF sp \in Range(prev) THEN Without(prev, sp) ELSE Append(prev, sp)

FormPayloadOmitsEmptySpecies(r, a, sp, sd, ed) ==
    IF sp = <<>>
    THEN [region_id |-> r, area_id |-> a, start_date |-> sd, end_date |-> ed]
    ELSE [region_id |-> r, area_id |-> a, species |-> sp,
          start_date |-> sd, end_date |-> ed]

\* { region_id: regionId, area_id: areaId, species, start_date, end_date }
FormPayload(r, a, sp, sd, ed) ==
    [region_id |-> r, area_id |-> a, species |-> sp,
     start_date |-> sd, end_date |-> ed]

\* the auto-run request for the metadata defaults
AutoRunPayload(d) ==
    [region_id |-> d.region_id, area_id |-> d.area_id, species |-> <<>>,
     start_date |-> Today, end_date |-> Today + AutoRunEndOffset]

(***************************************************************************)
(* API client: the body of POST /plan is the payload, serialised as is.    *)
(***************************************************************************)
CreatePlanBody(payload) == [f \in DOMAIN payload |-> payload[f]]

(***************************************************************************)
(* usePlanner: what the handlers compute.                                  *)
(***************************************************************************)
RunPlanCatchClearsResults(err, res) ==
    [error |-> Or(Or(err.respError, err.message), "Plan failed"),
     results |-> <<>>]

\* catch: setError(err?.response?.data?.error || err?.message || "Plan failed")
RunPlanCatch(err, res) ==
    [error |-> Or(Or(err.respError, err.message), "Plan failed"),
     results |-> res]

RunPlanLatestOnly(q, data, res) == IF q.id = nPlan THEN <<data>> ELSE res

\* const data = await createPlan(payload); setResults(data)
RunPlanThen(q, data, res) == <<data>>

HandleSavePresetAlways(u) == TRUE

\* handleSavePreset: if (!userId) { alert(...); return; } persistPreset(...)
HandleSavePresetPersists(u) == ~Falsy(u)

\* persistPreset / loadPresets: if (!userId) return;
HookIssuesPresetCall(u) == ~Falsy(u)

PresetThenClearsError(data, err) == [presets |-> data, error |-> NULL]

\* loadPresets / persistPreset, try path: const data = await ...;
\* setPresets(data); the error slot is not written
PresetThen(data, err) == [presets |-> data, error |-> err]

AutoRunIgnoresSubmitted(m, sub) == ~Absent(m) /\ ~Absent(DefaultsOf(m))

\* useEffect: if (meta && !submitted) { if (meta.defaults) runPlan(...) }
AutoRunFires(m, sub) == ~Absent(m) /\ ~sub /\ ~Absent(DefaultsOf(m))

(***************************************************************************)
(* Initial state: the page has mounted in a fresh browser, the metadata    *)
(* request is in flight.                                                   *)
(***************************************************************************)
Mounted ==
    /\ meta = <<>> /\ loadingMeta = TRUE /\ results = <<>>
    /\ planning = FALSE /\ error = NULL /\ presets = <<>>
    /\ submitted = FALSE
    /\ ls_user_id = NULL /\ ls_last_saved = <<>>
    /\ userId = Or(ls_user_id, "")
    /\ lastSaved = ls_last_saved
    /\ regionId = "" /\ areaId = "" /\ species = <<>>
    /\ startDate = Today /\ endDate = Today + FormEndOffset
    /\ rows = <<>>
    /\ planReqs = {} /\ presetReqs = {}
    /\ store = [u \in Users |-> <<>>]
    /\ last = [act |-> "Init"] /\ applied = <<>> /\ okOrder = <<>>
    /\ nPlan = 0 /\ nPreset = 0 /\ edits = 0 /\ nReload = 0
    /\ feedbackStatus = <<>> /\ fbReqs = {} /\ nFb = 0
    /\ apiStatus = "checking" /\ cancelled = FALSE /\ probe = "pending"
    /\ nProbe = 1 /\ statusWrites = 0

Init == Mounted /\ editBudget = MaxEdits

(***************************************************************************)
(* usePlanner.runPlan, up to its await: setPlanning(true); setError(null); *)
(* createPlan(payload) is sent.  A request in flight also records where it *)
(* came from, the species selected and the results displayed when it was   *)
(* issued, and whether another request has resolved successfully since.    *)
(***************************************************************************)
PlanReq(id, payload, origin) ==
    [id |-> id, body |-> CreatePlanBody(payload),
     origin |-> origin, noSpecies |-> species = <<>>,
     snap |-> results, overlap |-> FALSE]

RunPlan(payload, origin) ==
    /\ nPlan < MaxPlanReqs
    /\ planning' = TRUE
    /\ error' = NULL
    /\ planReqs' = planReqs \cup {PlanReq(nPlan + 1, payload, origin)}
    /\ nPlan' = nPlan + 1

(***************************************************************************)
(* onSubmit / onApplyPreset of the page: runPlan(payload);                 *)
(* setSubmitted(true).  The page's auto-run effect depends on submitted    *)
(* and runs again after the handler, with submitted true.                  *)
(***************************************************************************)
RunPlanAndEffect(payload, origin) ==
    IF AutoRunFires(meta, TRUE)
    THEN /\ nPlan < MaxPlanReqs
         /\ planning' = TRUE
         /\ error' = NULL
         /\ planReqs' = planReqs \cup
               {PlanReq(nPlan + 1, payload, origin),
                PlanReq(nPlan + 2, AutoRunPayload(DefaultsOf(meta)[1]), "auto")}
         /\ nPlan' = nPlan + 2
    ELSE RunPlan(payload, origin)

(***************************************************************************)
(* Metadata effect of usePlanner, with the effects its result triggers:    *)
(* the form's defaults effect and the page's auto-run effect.              *)
(***************************************************************************)
MetaOK(m) ==
    /\ loadingMeta
    /\ meta' = <<m>>
    /\ loadingMeta' = FALSE
    /\ LET f == AfterDefaultsEffect(<<m>>, regionId, areaId)
       IN regionId' = f.region /\ areaId' = f.area
    /\ IF AutoRunFires(<<m>>, submitted)
       THEN /\ RunPlan(AutoRunPayload(m.defaults[1]), "auto")
            /\ submitted' = TRUE
       ELSE UNCHANGED <<planning, error, planReqs, nPlan, submitted>>
    /\ last' = [act |-> "-"]
    /\ UNCHANGED <<results, presets, userId, lsVars, lastSaved, species,
                   startDate, endDate, rows, presetReqs, store,
                   applied, okOrder, nPreset, edits, nReload, editBudget, fbVars,
                   shellVars>>

MetaFail(e) ==
    /\ loadingMeta
    /\ error' = Or(e.message, "Failed to load metadata")
    /\ loadingMeta' = FALSE
    /\ last' = [act |-> "-"]
    /\ UNCHANGED <<meta, results, planning, presets, pageVars, lsVars,
                   formVars, rows, netVars,
                   applied, okOrder, nPlan, nPreset, edits, nReload, editBudget, fbVars,
                   shellVars>>

(***************************************************************************)
(* runPlan after its await.                                                *)
(***************************************************************************)
PlanOK(q, list) ==
    /\ q \in planReqs
    /\ LET data == [for |-> q.id, results |-> list]
       IN /\ results' = RunPlanThen(q, data, results)
          /\ okOrder' = Append(okOrder, data)
    /\ rows' = RenderRows(ResultsProp(results'))
    /\ planning' = FALSE
    /\ planReqs' = {[r EXCEPT !.overlap = TRUE] : r \in planReqs \ {q}}
    /\ last' = [act |-> "-"]
    /\ UNCHANGED <<meta, loadingMeta, error, presets, pageVars, lsVars,
                   formVars, presetReqs, store,
                   applied, nPlan, nPreset, edits, nReload, editBudget, fbVars,
                   shellVars>>

PlanFail(q, e) ==
    /\ q \in planReqs
    /\ LET c == RunPlanCatch(e, results)
       IN /\ error' = c.error
          /\ results' = c.results
    /\ rows' = RenderRows(ResultsProp(results'))
    /\ planning' = FALSE
    /\ planReqs' = planReqs \ {q}
    /\ last' = [act |-> "PlanFail", overlap |-> q.overlap]
    /\ UNCHANGED <<meta, loadingMeta, presets, pageVars, lsVars,
                   formVars, presetReqs, store,
                   applied, okOrder, nPlan, nPreset, edits, nReload, editBudget, fbVars,
                   shellVars>>

(***************************************************************************)
(* PlannerForm field edits.                                                *)
(***************************************************************************)
EditFrame ==
    /\ edits' = edits + 1
    /\ applied' = <<>>
    /\ UNCHANGED <<hookVars, pageVars, lsVars, lastSaved, rows, netVars,
                   okOrder, nPlan, nPreset, nReload, editBudget, fbVars,
                   shellVars>>

SelectRegion(v) ==
    /\ FormShown /\ edits < editBudget
    /\ v \in RegionOptions(meta) /\ v # regionId
    /\ LET f == AfterDefaultsEffect(meta, v, RegionChangeArea(meta, v, areaId))
       IN regionId' = f.region /\ areaId' = f.area
    /\ last' = [act |-> "SelectRegion", value |-> v, areaBefore |-> areaId]
    /\ UNCHANGED <<species, startDate, endDate>>
    /\ EditFrame

SelectArea(v) ==
    /\ FormShown /\ edits < editBudget
    /\ ~Falsy(regionId)
    /\ v \in {""} \cup Range(AreasOf(meta, regionId)) /\ v # areaId
    /\ areaId' = v
    /\ last' = [act |-> "-"]
    /\ UNCHANGED <<regionId, species, startDate, endDate>>
    /\ EditFrame

ToggleSpecies(sp) ==
    /\ FormShown /\ edits < editBudget
    /\ sp \in SpeciesOptions(meta)
    /\ species' = SpeciesToggle(species, sp)
    /\ last' = [act |-> "-"]
    /\ UNCHANGED <<regionId, areaId, startDate, endDate>>
    /\ EditFrame

\* <input type="date" min={today}>
SetStartDate(d) ==
    /\ FormShown /\ edits < editBudget
    /\ d \in DateInputs /\ d >= Today /\ d # startDate
    /\ startDate' = d
    /\ last' = [act |-> "-"]
    /\ UNCHANGED <<regionId, areaId, species, endDate>>
    /\ EditFrame

\* <input type="date" min={startDate}>
SetEndDate(d) ==
    /\ FormShown /\ edits < editBudget
    /\ d \in DateInputs /\ d >= startDate /\ d # endDate
    /\ endDate' = d
    /\ last' = [act |-> "-"]
    /\ UNCHANGED <<regionId, areaId, species, startDate>>
    /\ EditFrame

\* Reset: setSpecies([]); setRegionId(defaults?.region_id || ""); ...
Reset ==
    /\ FormShown /\ edits < editBudget
    /\ species' = <<>>
    /\ LET d == DefaultsOf(meta)
           r == IF Absent(d) THEN "" ELSE Or(d[1].region_id, "")
           a == IF Absent(d) THEN "" ELSE Or(d[1].area_id, "")
           f == AfterDefaultsEffect(meta, r, a)
       IN regionId' = f.region /\ areaId' = f.area
    /\ last' = [act |-> "-"]
    /\ UNCHANGED <<startDate, endDate>>
    /\ EditFrame

\* onUserIdChange: setUserId(val); localStorage.setItem("fisher_user_id", val)
ChangeUserId(v) ==
    /\ FormShown
    /\ v \in UserIdInputs /\ v # userId
    /\ userId' = v
    /\ ls_user_id' = v
    /\ last' = [act |-> "-"]
    /\ UNCHANGED <<hookVars, submitted, ls_last_saved, formVars, rows,
                   netVars, applied, okOrder, nPlan, nPreset, edits,
                   nReload, editBudget, fbVars,
                   shellVars>>

(***************************************************************************)
(* Submit, presets.                                                        *)
(***************************************************************************)
\* onSubmit: runPlan(payload); setSubmitted(true)
Submit ==
    /\ SubmitEnabled
    /\ RunPlanAndEffect(FormPayload(regionId, areaId, species, startDate,
                                    endDate), "submit")
    /\ submitted' = TRUE
    /\ last' = [act |-> "Submit"]
    /\ UNCHANGED <<meta, loadingMeta, results, presets, userId, lsVars,
                   formVars, rows, presetReqs, store,
                   applied, okOrder, nPreset, edits, nReload, editBudget, fbVars,
                   shellVars>>

\* Save preset onClick: onSavePreset(payload); then the timestamp is stored
SaveClick ==
    /\ FormShown
    /\ IF HandleSavePresetPersists(userId) /\ HookIssuesPresetCall(userId)
       THEN /\ nPreset < MaxPresetCalls
            /\ presetReqs' = presetReqs \cup
                 {[id |-> nPreset + 1, kind |-> "save", userId |-> userId,
                   preset |-> FormPayload(regionId, areaId, species,
                                          startDate, endDate)]}
            /\ nPreset' = nPreset + 1
       ELSE UNCHANGED <<presetReqs, nPreset>>
    /\ ls_last_saved' = <<Now>>
    /\ lastSaved' = <<Now>>
    /\ last' = [act |-> "SaveClick", alert |-> ~HandleSavePresetPersists(userId)]
    /\ UNCHANGED <<hookVars, pageVars, ls_user_id, regionId, areaId, species,
                   startDate, endDate, rows, planReqs, store,
                   applied, okOrder, nPlan, edits, nReload, editBudget, fbVars,
                   shellVars>>

\* handleLoadPresets: if (!userId) { alert(...); return; } loadPresets(userId)
LoadClick ==
    /\ FormShown
    /\ IF ~Falsy(userId) /\ HookIssuesPresetCall(userId)
       THEN /\ nPreset < MaxPresetCalls
            /\ presetReqs' = presetReqs \cup
                 {[id |-> nPreset + 1, kind |-> "load", userId |-> userId]}
            /\ nPreset' = nPreset + 1
       ELSE UNCHANGED <<presetReqs, nPreset>>
    /\ last' = [act |-> "-"]
    /\ UNCHANGED <<hookVars, pageVars, lsVars, formVars, rows, planReqs,
                   store, applied, okOrder, nPlan, edits, nReload, editBudget, fbVars,
                   shellVars>>

\* preset chip onClick: the five setters, onApplyPreset(p), setLastSaved
ApplyPreset(i) ==
    /\ FormShown
    /\ i \in 1..Len(presets)
    /\ LET p == presets[i]
           f == AfterDefaultsEffect(meta, p.region_id, p.area_id)
       IN /\ regionId' = f.region
          /\ areaId' = f.area
          /\ species' = p.species
          /\ startDate' = p.start_date
          /\ endDate' = p.end_date
          /\ RunPlanAndEffect(p, "apply")
          /\ applied' = <<p>>
    /\ submitted' = TRUE
    /\ lastSaved' = <<Now>>
    /\ last' = [act |-> "ApplyPreset"]
    /\ UNCHANGED <<meta, loadingMeta, results, presets, userId, lsVars, rows,
                   presetReqs, store, okOrder, nPreset, edits, nReload, editBudget, fbVars,
                   shellVars>>

\* persistPreset / loadPresets after the await: setPresets(data)
PresetOK(q) ==
    /\ q \in presetReqs
    /\ store' = IF q.kind = "save" THEN ServerSave(store, q.userId, q.preset)
                ELSE store
    /\ LET t == PresetThen(ServerList(store', q.userId), error)
       IN presets' = t.presets /\ error' = t.error
    /\ presetReqs' = presetReqs \ {q}
    /\ last' = [act |-> IF q.kind = "save" THEN "PresetSaveOK"
                        ELSE "PresetLoadOK"]
    /\ UNCHANGED <<meta, loadingMeta, results, planning, pageVars,
                   lsVars, formVars, rows, planReqs,
                   applied, okOrder, nPlan, nPreset, edits, nReload, editBudget, fbVars,
                   shellVars>>

\* catch: setError(err?.response?.data?.error || err?.message || "...")
PresetFail(q, e) ==
    /\ q \in presetReqs
    /\ error' = Or(Or(e.respError, e.message),
                   IF q.kind = "save" THEN "Preset save failed"
                   ELSE "Preset fetch failed")
    /\ presetReqs' = presetReqs \ {q}
    /\ last' = [act |-> "-"]
    /\ UNCHANGED <<meta, loadingMeta, results, planning, presets, pageVars,
                   lsVars, formVars, rows, planReqs, store,
                   applied, okOrder, nPlan, nPreset, edits, nReload, editBudget, fbVars,
                   shellVars>>

(***************************************************************************)
(* The environment: the page is reloaded (every component remounts, the    *)
(* requests in flight are abandoned, a save in flight may or may not have  *)
(* reached the service; localStorage and the service's store survive).      *)
(***************************************************************************)
Reload ==
    /\ nReload < MaxReloads
    /\ nReload' = nReload + 1
    /\ \E S \in SUBSET {q \in presetReqs : q.kind = "save"} :
          store' = ApplySaves(store, S)
    /\ meta' = <<>> /\ loadingMeta' = TRUE /\ results' = <<>>
    /\ planning' = FALSE /\ error' = NULL /\ presets' = <<>>
    /\ submitted' = FALSE
    /\ userId' = Or(ls_user_id, "")
    /\ lastSaved' = ls_last_saved
    /\ regionId' = "" /\ areaId' = "" /\ species' = <<>>
    /\ startDate' = Today /\ endDate' = Today + FormEndOffset
    /\ rows' = <<>>
    /\ planReqs' = {} /\ presetReqs' = {}
    /\ last' = [act |-> "-"] /\ applied' = <<>> /\ okOrder' = <<>>
    /\ feedbackStatus' = <<>> /\ fbReqs' = {}
    /\ apiStatus' = "checking" /\ cancelled' = FALSE /\ probe' = "pending"
    /\ nProbe' = 1 /\ statusWrites' = 0
    /\ UNCHANGED <<lsVars, nPlan, nPreset, edits, editBudget, nFb>>

(***************************************************************************)
(* ResultsList.handleFeedback: up to its await, and after it.              *)
(***************************************************************************)
FeedbackFrame ==
    UNCHANGED <<hookVars, pageVars, lsVars, formVars, rows, netVars,
                applied, okOrder, nPlan, nPreset, edits, nReload, editBudget,
                shellVars>>

FeedbackClick(i, rating) ==
    /\ nFb < MaxFeedback
    /\ i \in 1..Min(Len(rows), MaxFeedbackRow)
    /\ LET row == ResultsProp(results)[i]
           key == FeedbackKey(row)
       IN /\ feedbackStatus' =
                SetStatus(feedbackStatus, feedbackStatus, key, "Sending...")
          /\ fbReqs' = fbReqs \cup
                {[id |-> nFb + 1, key |-> key, seen |-> feedbackStatus,
                  header |-> FeedbackHeader(userId),
                  body |-> FeedbackBody(row, rating)]}
          /\ last' = [act |-> "Feedback", key |-> key]
    /\ nFb' = nFb + 1
    /\ FeedbackFrame

FeedbackOK(q) ==
    /\ q \in fbReqs
    /\ feedbackStatus' = SetStatus(feedbackStatus, q.seen, q.key, "Thanks!")
    /\ fbReqs' = fbReqs \ {q}
    /\ last' = [act |-> "Feedback", key |-> q.key]
    /\ UNCHANGED nFb
    /\ FeedbackFrame

FeedbackFail(q) ==
    /\ q \in fbReqs
    /\ feedbackStatus' = SetStatus(feedbackStatus, q.seen, q.key, "Error")
    /\ fbReqs' = fbReqs \ {q}
    /\ last' = [act |-> "Feedback", key |-> q.key]
    /\ UNCHANGED nFb
    /\ FeedbackFrame

(***************************************************************************)
(* Layout: the liveness probe started by the mount effect, and the         *)
(* effect's cleanup.                                                       *)
(***************************************************************************)
\* how fetch(`${API_BASE}/meta/regions`) can end: a response with res.ok, a
\* response without, a rejected promise
ProbeOutcomes == {"ok", "bad status", "network error"}

\* try { ...; if (!res.ok) throw ...; "ok" } catch (e) { "down" }
ProbeStatus(outcome) == IF outcome = "ok" THEN "ok" ELSE "down"

ProbeWritesAlways(c) == TRUE

\* if (!cancelled) setApiStatus(...)
ProbeWrites(c) == ~c

ShellFrame ==
    UNCHANGED <<hookVars, pageVars, lsVars, formVars, rows, netVars,
                applied, okOrder, nPlan, nPreset, edits, nReload, editBudget,
                fbVars>>

ProbeResolve(outcome) ==
    /\ probe = "pending"
    /\ probe' = "done"
    /\ IF ProbeWrites(cancelled)
       THEN /\ apiStatus' = ProbeStatus(outcome)
            /\ statusWrites' = statusWrites + 1
       ELSE UNCHANGED <<apiStatus, statusWrites>>
    /\ last' = [act |-> "Probe", outcome |-> outcome]
    /\ UNCHANGED <<cancelled, nProbe>>
    /\ ShellFrame

\* the shell unmounts: the effect's cleanup runs
ShellUnmount ==
    /\ ~cancelled
    /\ cancelled' = TRUE
    /\ last' = [act |-> "-"]
    /\ UNCHANGED <<apiStatus, probe, nProbe, statusWrites>>
    /\ ShellFrame

Next ==
    \/ \E m \in MetaPool : MetaOK(m)
    \/ \E e \in ErrPool : MetaFail(e)
    \/ \E q \in planReqs, list \in PlanLists : PlanOK(q, list)
    \/ \E q \in planReqs, e \in ErrPool : PlanFail(q, e)
    \/ \E v \in RegionOptions(meta) : SelectRegion(v)
    \/ \E v \in {""} \cup Range(AreasOf(meta, regionId)) : SelectArea(v)
    \/ \E sp \in SpeciesOptions(meta) : ToggleSpecies(sp)
    \/ \E d \in DateInputs : SetStartDate(d)
    \/ \E d \in DateInputs : SetEndDate(d)
    \/ Reset
    \/ \E v \in UserIdInputs : ChangeUserId(v)
    \/ Submit
    \/ SaveClick
    \/ LoadClick
    \/ \E i \in 1..Len(presets) : ApplyPreset(i)
    \/ \E q \in presetReqs : PresetOK(q)
    \/ \E q \in presetReqs, e \in ErrPool : PresetFail(q, e)
    \/ Reload

Spec == Init /\ [][Next]_vars

(***************************************************************************)
(* ResultsList alone: the component is mounted with any list of            *)
(* RenderLists as its results prop, and renders it.                        *)
(***************************************************************************)
InitResults ==
    /\ meta = <<>> /\ loadingMeta = TRUE
    /\ results \in {<<>>} \cup {<<[for |-> 0, results |-> l]>> : l \in RenderLists}
    /\ planning = FALSE /\ error = NULL /\ presets = <<>>
    /\ submitted = FALSE
    /\ ls_user_id = NULL /\ ls_last_saved = <<>>
    /\ userId = "" /\ lastSaved = <<>>
    /\ regionId = "" /\ areaId = "" /\ species = <<>>
    /\ startDate = Today /\ endDate = Today + FormEndOffset
    /\ rows = <<>>
    /\ planReqs = {} /\ presetReqs = {}
    /\ store = [u \in Users |-> <<>>]
    /\ last = [act |-> "-"] /\ applied = <<>> /\ okOrder = <<>>
    /\ nPlan = 0 /\ nPreset = 0 /\ edits = 0 /\ nReload = 0
    /\ feedbackStatus = <<>> /\ fbReqs = {} /\ nFb = 0
    /\ apiStatus = "checking" /\ cancelled = FALSE /\ probe = "pending"
    /\ nProbe = 1 /\ statusWrites = 0
    /\ editBudget = 0

RenderResults ==
    /\ last.act # "RenderResults"
    /\ rows' = RenderRows(ResultsProp(results))
    /\ last' = [act |-> "RenderResults"]
    /\ UNCHANGED <<hookVars, pageVars, lsVars, formVars, netVars,
                   applied, okOrder, nPlan, nPreset, edits, nReload,
                   editBudget, fbVars,
                   shellVars>>

NextResults == RenderResults

SpecResults == InitResults /\ [][NextResults]_vars

(***************************************************************************)
(* PlannerForm with the hook's metadata and run-plan, without presets: the *)
(* form's fields can be edited more often than in Spec.                    *)
(***************************************************************************)
InitForm == Mounted /\ editBudget = MaxFormEdits

NextForm ==
    \/ \E m \in MetaPool : MetaOK(m)
    \/ \E e \in ErrPool : MetaFail(e)
    \/ \E q \in planReqs, list \in PlanLists : PlanOK(q, list)
    \/ \E q \in planReqs, e \in ErrPool : PlanFail(q, e)
    \/ \E v \in RegionOptions(meta) : SelectRegion(v)
    \/ \E v \in {""} \cup Range(AreasOf(meta, regionId)) : SelectArea(v)
    \/ \E sp \in SpeciesOptions(meta) : ToggleSpecies(sp)
    \/ \E d \in DateInputs : SetStartDate(d)
    \/ \E d \in DateInputs : SetEndDate(d)
    \/ Reset
    \/ Submit

SpecForm == InitForm /\ [][NextForm]_vars

(***************************************************************************)
(* The hook, the page and the preset controls of the form, in one page     *)
(* session and with the form's fields left as the metadata defaults set    *)
(* them.                                                                   *)
(***************************************************************************)
InitHook == Mounted /\ editBudget = 0

NextHook ==
    \/ \E m \in MetaPool : MetaOK(m)
    \/ \E e \in ErrPool : MetaFail(e)
    \/ \E q \in planReqs, list \in PlanLists : PlanOK(q, list)
    \/ \E q \in planReqs, e \in ErrPool : PlanFail(q, e)
    \/ \E v \in UserIdInputs : ChangeUserId(v)
    \/ Submit
    \/ SaveClick
    \/ LoadClick
    \/ \E i \in 1..Len(presets) : ApplyPreset(i)
    \/ \E q \in presetReqs : PresetOK(q)
    \/ \E q \in presetReqs, e \in ErrPool : PresetFail(q, e)

SpecHook == InitHook /\ [][NextHook]_vars

(***************************************************************************)
(* The hook, the page's submit and the results list with its feedback      *)
(* controls, with the form's fields left as the metadata defaults set      *)
(* them.                                                                   *)
(***************************************************************************)
InitFeedback == Mounted /\ editBudget = 0

NextFeedback ==
    \/ \E m \in MetaPool : MetaOK(m)
    \/ \E e \in ErrPool : MetaFail(e)
    \/ \E q \in planReqs, list \in PlanLists : PlanOK(q, list)
    \/ \E q \in planReqs, e \in ErrPool : PlanFail(q, e)
    \/ Submit
    \/ \E i \in 1..MaxFeedbackRow, rating \in Ratings : FeedbackClick(i, rating)
    \/ \E q \in fbReqs : FeedbackOK(q)
    \/ \E q \in fbReqs : FeedbackFail(q)

SpecFeedback == InitFeedback /\ [][NextFeedback]_vars

(***************************************************************************)
(* The shell around the page: the probe, the unmount, and the page's       *)
(* metadata load and plan requests while the shell is mounted (the page    *)
(* unmounts with the shell, and React drops the state updates of an        *)
(* unmounted component).                                                   *)
(***************************************************************************)
InitShell == Mounted /\ editBudget = 0

NextShell ==
    \/ \E o \in ProbeOutcomes : ProbeResolve(o)
    \/ ShellUnmount
    \/ ~cancelled /\ \E m \in MetaPool : MetaOK(m)
    \/ ~cancelled /\ \E e \in ErrPool : MetaFail(e)
    \/ ~cancelled /\ \E q \in planReqs, list \in PlanLists : PlanOK(q, list)
    \/ ~cancelled /\ \E q \in planReqs, e \in ErrPool : PlanFail(q, e)
    \/ ~cancelled /\ Submit

SpecShell == InitShell /\ [][NextShell]_vars

(***************************************************************************)
(* Properties.                                                             *)
(***************************************************************************)
NonEmptyString(x) == x \notin {NULL, UNDEF, ""}

\* the request a PlanFail step has just handled
Handled(q) == last'.act = "PlanFail" /\ q \in planReqs /\ q \notin planReqs'

\* C1, as stated: after a run-plan invocation's create-plan call fails and
\* the failure is handled, the results state equals the results state before
\* the invocation, and the shared error message is a non-empty string.
C1_ResultsAsBeforeInvocation ==
    [][\A q \in planReqs :
         Handled(q) => results' = q.snap /\ NonEmptyString(error')]_vars

\* C1, amended: handling the failure leaves the results state as it was
\* immediately before the failure was handled, which is the results state
\* before the invocation unless an overlapping run-plan invocation resolved
\* successfully in between; the shared error message is a non-empty string.
C1_FailureKeepsResults ==
    [][\A q \in planReqs :
         Handled(q) =>
            /\ results' = results
            /\ rows' = rows
            /\ (~q.overlap => results' = q.snap)
            /\ NonEmptyString(error')]_vars

\* a failure was handled while earlier results were displayed, with no other
\* invocation resolving in between
C1_Witness ==
    last.act = "PlanFail" /\ ~last.overlap /\ ~Absent(results) /\ planReqs = {}

\* C2: while the caller identifier is empty, Save preset issues no
\* preset-save network call, prompts the user, and leaves the preset list
\* unchanged.
C2_SaveWithoutCallerId ==
    [][(last'.act = "SaveClick" /\ Falsy(userId)) =>
          /\ last'.alert
          /\ presetReqs' = presetReqs
          /\ nPreset' = nPreset
          /\ store' = store
          /\ presets' = presets]_vars

\* Save preset was pressed with an empty caller identifier while presets
\* were listed
C2_Witness ==
    last.act = "SaveClick" /\ last.alert /\ Falsy(userId) /\ Len(presets) > 0

SamePlan(body, p) ==
    /\ DOMAIN body = DOMAIN p
    /\ body.region_id = p.region_id
    /\ body.area_id = p.area_id
    /\ Range(body.species) = Range(p.species)
    /\ body.start_date = p.start_date
    /\ body.end_date = p.end_date

\* C3: applying a preset of the loaded list makes the next plan request
\* carry exactly that preset's region id, area id, species set and dates:
\* the request issued by the apply action itself, the request a press of
\* submit would send next with no edit in between, and the request such a
\* press has sent.
C3_ApplyPresetRoundTrip ==
    /\ last.act = "ApplyPreset" =>
          \A q \in planReqs : q.id = nPlan => SamePlan(q.body, applied[1])
    /\ (SubmitEnabled /\ ~Absent(applied)) =>
          SamePlan(CreatePlanBody(FormPayload(regionId, areaId, species,
                                              startDate, endDate)),
                   applied[1])
    /\ (last.act = "Submit" /\ ~Absent(applied)) =>
          \A q \in planReqs : q.id = nPlan => SamePlan(q.body, applied[1])

\* C4: the results component renders min(length, 8) rows, the first rows of
\* the supplied list in the supplied order; a list longer than eight
\* entries yields exactly eight rows.
C4_RendersFirstEight ==
    last.act = "RenderResults" =>
        LET list == ResultsProp(results)
        IN /\ Len(rows) = (IF Len(list) < 8 THEN Len(list) ELSE 8)
           /\ \A i \in 1..Len(rows) :
                 /\ rows[i].key = <<list[i].date, list[i].window_id>>
                 /\ rows[i].score = list[i].score
           /\ (Len(list) > 8 => Len(rows) = 8)

\* a list longer than eight entries, not sorted by score, has been rendered
C4_Witness ==
    /\ last.act = "RenderResults"
    /\ Len(ResultsProp(results)) > 8
    /\ Len(rows) = 8
    /\ \E i \in 1..7 : rows[i].score < rows[i + 1].score
    /\ \E i \in 1..7 : rows[i].score > rows[i + 1].score

RequiredLabels == {"wind", "swell", "sea_temp", "tide"}

\* C5: a rendered row shows the data-gap indicator if and only if at least
\* one of the labels wind, swell, sea_temp, tide is missing from the row
\* (no sources record, or the label undefined, null or empty).
C5_DataGapIffLabelMissing ==
    last.act = "RenderResults" =>
        \A i \in 1..Len(rows) :
            LET src == ResultsProp(results)[i].sources
            IN rows[i].hasGap <=>
                 \/ src = <<>>
                 \/ \E k \in RequiredLabels : src[1][k] \in {UNDEF, NULL, ""}

\* a row whose only missing label is tide has been rendered, with the
\* indicator
C5_Witness ==
    /\ last.act = "RenderResults"
    /\ Len(rows) > 0
    /\ rows[1].hasGap
    /\ LET src == ResultsProp(results)[1].sources
       IN /\ src # <<>>
          /\ src[1].tide = NULL
          /\ \A k \in RequiredLabels \ {"tide"} : src[1][k] = "open-meteo"

\* C6: with metadata loaded, selecting a region whose area list is
\* non-empty sets the area selection to that region's first area, whatever
\* it was before.
C6_RegionSelectSetsFirstArea ==
    [][(/\ last'.act = "SelectRegion"
        /\ ~Absent(meta)
        /\ Len(AreasOf(meta, last'.value)) > 0) =>
          /\ regionId' = last'.value
          /\ areaId' = AreasOf(meta, last'.value)[1]]_vars

\* a region with areas was selected while the area of another region's
\* choice was selected, and the first area replaced it
C6_Witness ==
    /\ last.act = "SelectRegion"
    /\ last.value = "r1"
    /\ last.areaBefore = "a2"
    /\ areaId = "a1"

\* C7: every plan request issued while no species is selected, by a form
\* submit or by the automatic default plan, carries a species field that is
\* present and is the empty sequence.
C7_EmptySpeciesIsEmptySequence ==
    \A q \in planReqs :
        (q.origin \in {"submit", "auto"} /\ q.noSpecies) =>
            /\ "species" \in DOMAIN q.body
            /\ q.body.species = <<>>

\* a form submit with no species selected is in flight
C7_Witness ==
    \E q \in planReqs : q.origin = "submit" /\ q.noSpecies

\* C8: whenever a plan request is outstanding, and whenever region or area
\* is unset, the submit control is disabled.
C8_SubmitDisabledWhileOutstanding ==
    (planReqs # {} \/ Falsy(regionId) \/ Falsy(areaId)) => ~SubmitEnabled

\* C9: the persisted last-saved timestamp is written only by a preset save
\* that completed successfully; a skipped or failed save leaves it
\* unchanged.
C9_LastSavedOnlyBySuccessfulSave ==
    [][ls_last_saved' # ls_last_saved => last'.act = "PresetSaveOK"]_vars

\* C10: the results state is the response that resolved successfully last,
\* whichever request was issued first.
C10_LastResolvedWins ==
    Len(okOrder) > 0 =>
        /\ results = <<okOrder[Len(okOrder)]>>
        /\ rows = RenderRows(okOrder[Len(okOrder)].results)

\* two overlapping invocations have both resolved successfully, the one
\* issued first resolved last, and its response is displayed
C10_Witness ==
    /\ planReqs = {}
    /\ \E i \in 1..Len(okOrder) :
          /\ i < Len(okOrder)
          /\ okOrder[i].for > okOrder[Len(okOrder)].for
    /\ results[1].for = okOrder[Len(okOrder)].for

\* the area a region selection is said to leave selected
FirstAreaOrEmpty(m, v) ==
    IF Len(AreasOf(m, v)) > 0 THEN AreasOf(m, v)[1] ELSE ""

\* C11: selecting a region resets the area selection, to the first area of
\* the newly selected region when it has areas and to empty when it has none
\* (the blank option included): the area of the region selected before never
\* survives the change.
C11_RegionChangeResetsArea ==
    [][(last'.act = "SelectRegion" /\ regionId' = last'.value) =>
          areaId' = FirstAreaOrEmpty(meta, last'.value)]_vars

\* the steps that complete a network call
MetaLoaded == Absent(meta) /\ ~Absent(meta')
MetaFailed == loadingMeta /\ ~loadingMeta' /\ Absent(meta')
PresetSucceeded == last'.act \in {"PresetSaveOK", "PresetLoadOK"}
PresetFailed ==
    /\ nReload' = nReload
    /\ \E q \in presetReqs : q \notin presetReqs'
    /\ ~PresetSucceeded
PlanFailed == last'.act = "PlanFail"
RunPlanInvoked == nPlan' = nPlan + 1

\* C12: the shared error slot holds the message of the most recent metadata,
\* plan or preset failure: every such failure writes a non-empty message and
\* nothing else writes one; a successful metadata load, preset load or
\* preset save leaves the slot as it was; and the slot is emptied only by a
\* run-plan invocation, which resets it on its try path (a page reload
\* starts a new, empty slot).
C12_SharedErrorSlot ==
    [][nReload' = nReload =>
       /\ (MetaLoaded \/ PresetSucceeded) => error' = error
       /\ (MetaFailed \/ PresetFailed \/ PlanFailed) => NonEmptyString(error')
       /\ (error' # error /\ error' # NULL) =>
             (MetaFailed \/ PresetFailed \/ PlanFailed)
       /\ (error' # error /\ error' = NULL) => RunPlanInvoked]_vars

\* a preset load has succeeded while the slot held an earlier failure's
\* message, and the message is still there
C12_Witness ==
    last.act = "PresetLoadOK" /\ NonEmptyString(error) /\ Len(presets) > 0

FeedbackTexts == {"Sending...", "Thanks!", "Error"}

\* C13: a step of a feedback submission for a row, the click or the
\* completion, successful or not, writes that row's status text (Sending...
\* at the click, Thanks! or Error at the completion) and nothing else: the
\* shared error slot, the plan results and the rows rendered from them, the
\* planning flag, the requests in flight and every other row's status text
\* are as before.
C13_FeedbackTouchesOnlyItsRow ==
    [][last'.act = "Feedback" =>
         /\ error' = error /\ results' = results /\ rows' = rows
         /\ planning' = planning /\ planReqs' = planReqs
         /\ presets' = presets
         /\ \A k \in DOMAIN feedbackStatus \cup DOMAIN feedbackStatus' :
               k # last'.key =>
                  StatusText(feedbackStatus', k) = StatusText(feedbackStatus, k)
         /\ StatusText(feedbackStatus', last'.key) \in FeedbackTexts
         /\ (nFb' = nFb + 1 =>
               StatusText(feedbackStatus', last'.key) = "Sending...")
         /\ (nFb' = nFb =>
               StatusText(feedbackStatus', last'.key) \in {"Thanks!", "Error"})]_vars

\* a row's submission has failed while another row's submission and a plan
\* request are outstanding
C13_Witness ==
    /\ last.act = "Feedback"
    /\ StatusText(feedbackStatus, last.key) = "Error"
    /\ \E q \in fbReqs :
          q.key # last.key /\ StatusText(feedbackStatus, q.key) = "Sending..."
    /\ planReqs # {}
    /\ ~Absent(results)

\* C14: with the dates changed only through the form's date widgets (the
\* start date no earlier than today, the end date no earlier than the start
\* date shown when it is picked), every plan request the form submits has an
\* end date that does not precede its start date.
C14_SubmittedEndNotBeforeStart ==
    \A q \in planReqs :
        q.origin = "submit" => q.body.end_date >= q.body.start_date

\* C15: the liveness indicator is checking until the probe resolves and
\* changes at most once, from checking to live when the probe's response is
\* a success and to offline when the probe fails or answers a non-success
\* status; one probe call is made per mount and none after it; once the
\* shell has unmounted the indicator is not written, whatever the probe
\* answers.
C15_ProbeFlipsIndicatorOnce ==
    [][/\ nProbe = 1 /\ nProbe' = 1
       /\ (probe = "pending" => apiStatus = "checking")
       /\ (apiStatus' # apiStatus =>
             /\ apiStatus = "checking"
             /\ last'.act = "Probe"
             /\ apiStatus' = (IF last'.outcome = "ok" THEN "ok" ELSE "down"))
       /\ (last'.act = "Probe" /\ ~cancelled =>
             apiStatus' \in {"ok", "down"} /\ statusWrites' = 1)
       /\ (cancelled =>
             apiStatus' = apiStatus /\ statusWrites' = statusWrites)
       /\ statusWrites' <= 1]_vars

\* the shell unmounted while the probe was pending, the probe then answered
\* with a success, and the indicator was not written
C15_Witness ==
    /\ cancelled /\ probe = "done"
    /\ last.act = "Probe" /\ last.outcome = "ok"
    /\ apiStatus = "checking" /\ statusWrites = 0

\* the automatic plan requests a step issues
AutoIssued == {q \in planReqs' : q.id > nPlan /\ q.origin = "auto"}

\* C16: in a page session the automatic default plan is issued at most once,
\* by the step in which metadata loads with a defaults record, and only
\* when no plan request has been issued before it (by submit, preset apply
\* or an earlier automatic plan); a metadata load without defaults and a
\* failed metadata load issue no plan request.
C16_AutoRunAtMostOnce ==
    [][/\ AutoIssued # {} =>
             /\ Cardinality(AutoIssued) = 1
             /\ nPlan = 0 /\ ~submitted /\ submitted'
             /\ MetaLoaded /\ ~Absent(DefaultsOf(meta'))
             /\ \A q \in AutoIssued :
                   /\ q.body.region_id = DefaultsOf(meta')[1].region_id
                   /\ q.body.area_id = DefaultsOf(meta')[1].area_id
       /\ (MetaLoaded /\ ~Absent(DefaultsOf(meta'))) => AutoIssued # {}
       /\ (MetaLoaded /\ Absent(DefaultsOf(meta'))) =>
             planReqs' = planReqs /\ nPlan' = nPlan
       /\ MetaFailed => planReqs' = planReqs /\ nPlan' = nPlan]_vars

\* the automatic plan was issued and has resolved, and the user has since
\* submitted a plan of their own: no second automatic plan is in flight
C16_Witness ==
    /\ ~Absent(DefaultsOf(meta)) /\ submitted
    /\ Len(okOrder) > 0 /\ okOrder[1].for = 1
    /\ last.act = "Submit"
    /\ \A q \in planReqs : q.origin = "submit"

====
